---- MODULE Spec2Model ----
(***************************************************************************)
(* Model of the speech assistant of listen_loop.py: the phrase utilities,  *)
(* the skill table, the command interpreter, the skill dispatcher and the  *)
(* candidate-reinforcement protocol, driven by the listening loop.         *)
(*                                                                         *)
(* Text is a sequence of atoms.  An utterance, a skill name or a command   *)
(* is a sequence of one-character strings; a literal of the program that   *)
(* is never tokenized (a fixed response) is a single atom.  The empty      *)
(* string is << >> and Python's None is the value None below.              *)
(***************************************************************************)
EXTENDS Integers, Sequences, FiniteSets, TLC

VARIABLES skills, order, threshold, exit_loop, pc, stack, response, trace,
          turns, run, learned, modified_file

vars == <<skills, order, threshold, exit_loop, pc, stack, response, trace,
          turns, run, learned, modified_file>>

(***************************************************************************)
(* Bounds of the model.                                                    *)
(***************************************************************************)
MaxThreshold == 3
MaxCommands == 2
MaxTurns == 3
MaxDepth == 2
MaxLen == 4

(***************************************************************************)
(* Text values.                                                            *)
(***************************************************************************)
None == <<"<None>">>

Truthy(x) == x # None /\ x # <<>>

DEFAULT_ALIAS == <<"P", "a", "n", "d", "a">>

DEFAULT_SKILL_THRESHOLD == 3

CharOrder == <<" ", "P", "a", "b", "c", "d", "e", "f", "g", "h", "i", "j",
               "k", "l", "m", "n", "o", "p", "q", "r", "s", "t", "u", "v",
               "w", "x", "y", "z">>

Ord(c) == CHOOSE i \in 1..Len(CharOrder) : CharOrder[i] = c

LowerChar(c) == IF c = "P" THEN "p" ELSE c

Lower(s) == [i \in 1..Len(s) |-> LowerChar(s[i])]

IsSpace(c) == c = " "

Min(a, b) == IF a < b THEN a ELSE b

\* str.split(): the maximal runs of non-whitespace characters, in order.
RECURSIVE SplitFrom(_, _, _)
SplitFrom(s, i, cur) ==
    IF i > Len(s)
    THEN IF cur = <<>> THEN <<>> ELSE <<cur>>
    ELSE IF IsSpace(s[i])
         THEN (IF cur = <<>> THEN <<>> ELSE <<cur>>) \o SplitFrom(s, i + 1, <<>>)
         ELSE SplitFrom(s, i + 1, Append(cur, s[i]))

Split(s) == SplitFrom(s, 1, <<>>)

\* ' '.join(parts)
RECURSIVE Join(_)
Join(parts) ==
    IF parts = <<>> THEN <<>>
    ELSE IF Len(parts) = 1 THEN parts[1]
         ELSE parts[1] \o <<" ">> \o Join(Tail(parts))

\* parts[:n] and parts[n:], which clamp n to the length of the list.
Take(parts, n) == SubSeq(parts, 1, Min(n, Len(parts)))

Drop(parts, n) == SubSeq(parts, Min(n, Len(parts)) + 1, Len(parts))

\* needle in haystack, for strings: a contiguous occurrence.
Contains(haystack, needle) ==
    \E i \in 0..(Len(haystack) - Len(needle)) :
        SubSeq(haystack, i + 1, i + Len(needle)) = needle

\* unicode comparison, used by sorted().
RECURSIVE StrLess(_, _)
StrLess(a, b) ==
    IF a = <<>> THEN b # <<>>
    ELSE IF b = <<>> THEN FALSE
         ELSE IF a[1] = b[1] THEN StrLess(Tail(a), Tail(b))
              ELSE Ord(a[1]) < Ord(b[1])

RECURSIVE Sorted(_)
Sorted(S) ==
    IF S = {} THEN <<>>
    ELSE LET m == CHOOSE x \in S : \A y \in S \ {x} : StrLess(x, y)
         IN  <<m>> \o Sorted(S \ {m})

(***************************************************************************)
(* Phrase utilities.                                                       *)
(***************************************************************************)
remove_leading_words_unchecked(phrase, leader) ==
    IF Truthy(phrase)
    THEN Join(Drop(Split(phrase), Len(Split(leader))))
    ELSE phrase

remove_leading_words(phrase, leader) ==
    IF Truthy(phrase)
    THEN LET phrase_parts == Split(phrase)
             leader_len == Len(Split(leader))
             phrase_start == Join(Take(phrase_parts, leader_len))
         IN  IF Lower(leader) = Lower(phrase_start)
             THEN Join(Drop(phrase_parts, leader_len))
             ELSE phrase
    ELSE phrase

starts_with(phrase, leader) == phrase # remove_leading_words(phrase, leader)

(***************************************************************************)
(* The trace of one step: what was heard, the calls made and the sentences *)
(* spoken, in order.  The first event of a step is the utterance heard:    *)
(* "wake_heard" and "command_heard" in listen_loop, and for an answer the  *)
(* name of the function that asked ("learn_command", "generalize_command") *)
(* with the skill asked about, the answer, and the phrase being learned.   *)
(***************************************************************************)
Ev(e, s, a, r) == [ev |-> e, skill |-> s, arg |-> a, resp |-> r]

(***************************************************************************)
(* Candidate reinforcement.  candidates is a mapping from phrase to count. *)
(***************************************************************************)
Put(m, k, v) == [x \in DOMAIN m \cup {k} |-> IF x = k THEN v ELSE m[x]]

Del(m, k) == [x \in DOMAIN m \ {k} |-> m[x]]

increase_command_candidate_prepend(sk, th, skill, command) ==
    LET cand == sk[skill].candidates
    IN  IF command \in DOMAIN cand
        THEN LET n == cand[command] + 1
             IN  IF n >= th
                 THEN [skills |-> [sk EXCEPT
                                     ![skill].commands = <<command>> \o @,
                                     ![skill].candidates = Del(@, command)],
                       events |-> <<Ev("inc", skill, command, None),
                                    Ev("learned", skill, command, None)>>]
                 ELSE [skills |-> [sk EXCEPT
                                     ![skill].candidates = Put(@, command, n)],
                       events |-> <<Ev("inc", skill, command, None)>>]
        ELSE [skills |-> [sk EXCEPT ![skill].candidates = Put(@, command, 1)],
              events |-> <<Ev("inc", skill, command, None)>>]

increase_command_candidate(sk, th, skill, command) ==
    LET cand == sk[skill].candidates
    IN  IF command \in DOMAIN cand
        THEN LET n == cand[command] + 1
             IN  IF n >= th
                 THEN [skills |-> [sk EXCEPT
                                     ![skill].commands = Append(@, command),
                                     ![skill].candidates = Del(@, command)],
                       events |-> <<Ev("inc", skill, command, None),
                                    Ev("learned", skill, command, None)>>]
                 ELSE [skills |-> [sk EXCEPT
                                     ![skill].candidates = Put(@, command, n)],
                       events |-> <<Ev("inc", skill, command, None)>>]
        ELSE [skills |-> [sk EXCEPT ![skill].candidates = Put(@, command, 1)],
              events |-> <<Ev("inc", skill, command, None)>>]

decrease_command_candidate_at_zero(sk, skill, command) ==
    LET cand == sk[skill].candidates
    IN  IF command \in DOMAIN cand
        THEN LET n == cand[command] - 1
             IN  IF n <= 0
                 THEN [skills |-> [sk EXCEPT
                                     ![skill].candidates = Del(@, command)],
                       events |-> <<Ev("dec", skill, command, None),
                                    Ev("forgotten", skill, command, None)>>]
                 ELSE [skills |-> [sk EXCEPT
                                     ![skill].candidates = Put(@, command, n)],
                       events |-> <<Ev("dec", skill, command, None)>>]
        ELSE [skills |-> sk, events |-> <<Ev("dec", skill, command, None)>>]

decrease_command_candidate(sk, skill, command) ==
    LET cand == sk[skill].candidates
    IN  IF command \in DOMAIN cand
        THEN LET n == cand[command] - 1
             IN  IF n < 0
                 THEN [skills |-> [sk EXCEPT
                                     ![skill].candidates = Del(@, command)],
                       events |-> <<Ev("dec", skill, command, None),
                                    Ev("forgotten", skill, command, None)>>]
                 ELSE [skills |-> [sk EXCEPT
                                     ![skill].candidates = Put(@, command, n)],
                       events |-> <<Ev("dec", skill, command, None)>>]
        ELSE [skills |-> sk, events |-> <<Ev("dec", skill, command, None)>>]

(***************************************************************************)
(* The words of the program and the utterances of the model.               *)
(***************************************************************************)
T_Yes == <<"y", "e", "s">>

T_Yup == <<"y", "u", "p">>

T_Yeah == <<"y", "e", "a", "h">>

T_Affirmative == <<"a", "f", "f", "i", "r", "m", "a", "t", "i", "v", "e">>

T_Skip == <<"s", "k", "i", "p">>

T_Stop == <<"s", "t", "o", "p">>

T_No == <<"n", "o">>

T_Help == <<"h", "e", "l", "p">>

T_Date == <<"d", "a", "t", "e">>

T_Time == <<"t", "i", "m", "e">>

T_Quit == <<"q", "u", "i", "t">>

T_TurnOn == <<"t", "u", "r", "n", " ", "o", "n">>

T_Lights == <<"l", "i", "g", "h", "t", "s">>

T_Mute == <<"m", "u", "t", "e">>

T_Joke == <<"j", "o", "k", "e">>

T_Turn == <<"t", "u", "r", "n">>

T_Please == <<"p", "l", "e", "a", "s", "e">>

T_PleaseTurnOn == <<"p", "l", "e", "a", "s", "e", " ", "t", "u", "r", "n", " ", "o", "n">>

T_MuteMe == <<"m", "u", "t", "e", " ", "m", "e">>

T_PleaseMute == <<"p", "l", "e", "a", "s", "e", " ", "m", "u", "t", "e">>

T_Hello == <<"h", "e", "l", "l", "o">>

(***************************************************************************)
(* Skill tables, as load_skills reads them from the skills file.  A skill  *)
(* is a record with commands and candidates and, optionally, response or   *)
(* random.  The order of a table is the iteration order of the dictionary. *)
(***************************************************************************)
Skill(commands, candidates) ==
    [commands |-> commands, candidates |-> candidates]

HomeTable ==
    (T_Lights :> [commands |-> <<>>, candidates |-> <<>>,
                  response |-> <<"Let there be light">>])
    @@ (T_TurnOn :> Skill(<<>>, <<>>))
    @@ (T_Quit :> Skill(<<>>, <<>>))

FunTable ==
    (T_Mute :> [commands |-> <<>>, candidates |-> <<>>, response |-> <<>>])
    @@ (T_Joke :> [commands |-> <<T_MuteMe>>, candidates |-> <<>>,
                   random |-> << <<"Knock knock">>, <<"Why did the chicken">> >>])

\* A skills file: absent, or the text json.dumps writes for a table, which is
\* the sequence of its skills with their entries.
NoFile == [present |-> FALSE, text |-> <<>>]

Orders(S) ==
    {o \in [1..Cardinality(S) -> S] : \A i, j \in DOMAIN o : i # j => o[i] # o[j]}

\* The iteration orders of a table that are explored: quit, when there, last.
TableOrders(sk) ==
    {o \in Orders(DOMAIN sk) : T_Quit \in DOMAIN sk => o[Len(o)] = T_Quit}

\* The table with the count n stored for the candidate command of skill.
WithCandidate(sk, skill, command, n) ==
    [sk EXCEPT ![skill].candidates = Put(@, command, n)]

InSeq(x, seq) == \E i \in DOMAIN seq : seq[i] = x

Occurrences(x, seq) == Cardinality({i \in DOMAIN seq : seq[i] = x})

NoRun == [skill |-> None, phrase |-> None, n |-> 0]

(***************************************************************************)
(* Skill dispatcher.  env carries what the environment decides during one  *)
(* step: the index drawn by random.choice and the reading of the clock.    *)
(***************************************************************************)
Clock == {"09:00"}

\* The indices random.choice can draw from the random lists of a table.
Picks(sk) ==
    {1} \cup UNION {DOMAIN sk[skill].random :
                      skill \in {x \in DOMAIN sk : "random" \in DOMAIN sk[x]}}

Envs(sk) == [pick : Picks(sk), now : Clock]

IsDirective(atom) == atom \in {"%A", "%B", "%d", "%Y"}

\* time.strftime(pattern, localtime)
Strftime(pattern, now) ==
    [i \in DOMAIN pattern |-> IF IsDirective(pattern[i]) THEN now ELSE pattern[i]]

Usage == <<"To list commands for a specific skill, simply say \"help\" followed by the name of the skill.  The following skills are currently supported">>

Separator == <<": ... ">>

JoinWith_space(sep, parts) == Join(parts)

\* separator.join(parts)
RECURSIVE JoinWith(_, _)
JoinWith(sep, parts) ==
    IF parts = <<>> THEN <<>>
    ELSE IF Len(parts) = 1 THEN parts[1]
         ELSE parts[1] \o sep \o JoinWith(sep, Tail(parts))

Dispatched(resp, ex) == [response |-> resp, exit |-> ex, error |-> FALSE]

Raised == [response |-> None, exit |-> FALSE, error |-> TRUE]

do_skill_keep_running(sk, skill, operand, env) ==
    LET resources == sk[skill]
    IN  IF "response" \in DOMAIN resources
        THEN Dispatched(resources.response, FALSE)
        ELSE IF "random" \in DOMAIN resources
        THEN IF resources.random = <<>> THEN Raised
             ELSE Dispatched(resources.random[Min(env.pick, Len(resources.random))],
                             FALSE)
        ELSE IF skill = T_Help
        THEN IF Truthy(operand) /\ operand \in DOMAIN sk
             THEN Dispatched(JoinWith(Separator,
                      << <<"These commands are available for the \"">> \o operand
                         \o <<"\" skill">> >> \o sk[operand].commands), FALSE)
             ELSE Dispatched(JoinWith(Separator,
                      <<Usage>> \o Sorted(DOMAIN sk)), FALSE)
        ELSE IF skill = T_Date
        THEN IF "pattern" \in DOMAIN resources
             THEN Dispatched(Strftime(resources.pattern, env.now), FALSE)
             ELSE Raised
        ELSE IF skill = T_Time
        THEN Dispatched(<<"It is now ", env.now>>, FALSE)
        ELSE IF skill = T_Quit
        THEN Dispatched(<<"Stopping now">>, FALSE)
        ELSE IF skill = T_TurnOn
        THEN IF Truthy(operand)
             THEN Dispatched(<<"I cannot turn on ">> \o operand, FALSE)
             ELSE Dispatched(<<"You need to tell me what to turn on">>, FALSE)
        ELSE Dispatched(<<"I am not yet programmed for the skill ">> \o skill, FALSE)

do_skill(sk, skill, operand, env) ==
    LET resources == sk[skill]
    IN  IF "response" \in DOMAIN resources
        THEN Dispatched(resources.response, FALSE)
        ELSE IF "random" \in DOMAIN resources
        THEN IF resources.random = <<>> THEN Raised
             ELSE Dispatched(resources.random[Min(env.pick, Len(resources.random))],
                             FALSE)
        ELSE IF skill = T_Help
        THEN IF Truthy(operand) /\ operand \in DOMAIN sk
             THEN Dispatched(JoinWith(Separator,
                      << <<"These commands are available for the \"">> \o operand
                         \o <<"\" skill">> >> \o sk[operand].commands), FALSE)
             ELSE Dispatched(JoinWith(Separator,
                      <<Usage>> \o Sorted(DOMAIN sk)), FALSE)
        ELSE IF skill = T_Date
        THEN IF "pattern" \in DOMAIN resources
             THEN Dispatched(Strftime(resources.pattern, env.now), FALSE)
             ELSE Raised
        ELSE IF skill = T_Time
        THEN Dispatched(<<"It is now ", env.now>>, FALSE)
        ELSE IF skill = T_Quit
        THEN Dispatched(<<"Stopping now">>, TRUE)
        ELSE IF skill = T_TurnOn
        THEN IF Truthy(operand)
             THEN Dispatched(<<"I cannot turn on ">> \o operand, FALSE)
             ELSE Dispatched(<<"You need to tell me what to turn on">>, FALSE)
        ELSE Dispatched(<<"I am not yet programmed for the skill ">> \o skill, FALSE)

(***************************************************************************)
(* Command interpreter and learning protocol.                              *)
(*                                                                         *)
(* process_command, learn_command and generalize_command call each other   *)
(* and block in listen() for the answer to a question.  A configuration is *)
(* the state of that computation: the table, the exit flag, the stack of   *)
(* the learn_command / generalize_command activations that are suspended,  *)
(* and the trace of the step.  The top activation waits for an answer; the *)
(* ones below wait for the process_command call they made to return.       *)
(***************************************************************************)
Config(sk, ex, st, tr) ==
    [skills |-> sk, exit |-> ex, stack |-> st, trace |-> tr,
     resp |-> None, done |-> FALSE, error |-> FALSE]

Frame(fn, phrase, idx) == [fn |-> fn, phrase |-> phrase, idx |-> idx]

Last(seq) == seq[Len(seq)]

Front(seq) == SubSeq(seq, 1, Len(seq) - 1)

Affirmative == {T_Yes, T_Yup, T_Yeah, T_Affirmative}

learn_skill_echo(command) == command

learn_skill(command) == None

\* The two loops of process_command, from the i-th skill of the table on.
RECURSIVE match_loop(_, _, _, _)
match_loop(sk, phrase, i, env) ==
    IF i > Len(order)
    THEN [response |-> None, exit |-> FALSE, error |-> FALSE, events |-> <<>>]
    ELSE LET skill == order[i]
             leaders == <<skill>> \o sk[skill].commands
             hits == {k \in DOMAIN leaders :
                         remove_leading_words(phrase, leaders[k]) # phrase}
         IN  IF hits = {}
             THEN match_loop(sk, phrase, i + 1, env)
             ELSE LET k == CHOOSE h \in hits : \A g \in hits : h <= g
                      operand == remove_leading_words(phrase, leaders[k])
                      d == do_skill(sk, skill, operand, env)
                      ev == Ev("do_skill", skill, operand, d.response)
                  IN  IF d.error
                      THEN [response |-> None, exit |-> d.exit, error |-> TRUE,
                            events |-> <<ev>>]
                      ELSE IF Truthy(d.response)
                      THEN [response |-> d.response, exit |-> d.exit,
                            error |-> FALSE, events |-> <<ev>>]
                      ELSE LET rest == match_loop(sk, phrase, i + 1, env)
                           IN  [rest EXCEPT !.events = <<ev>> \o @,
                                            !.exit = d.exit \/ @]

RECURSIVE Return(_, _)
RECURSIVE generalize_command(_, _, _)

\* process_command returns r to its caller: the activation on top of the
\* stack, or process_phrase when the stack is empty.
Return(c, r) ==
    IF c.stack = <<>>
    THEN [c EXCEPT !.resp = r, !.done = TRUE]
    ELSE LET top == Last(c.stack)
             below == [c EXCEPT !.stack = Front(c.stack)]
         IN  IF top.fn = "learn_command"
             THEN IF Truthy(r)
                  THEN Return(below, r)
                  ELSE generalize_command(below, top.phrase, 1)
             ELSE IF Truthy(r)
                  THEN Return(below, r)
                  ELSE Return(below, learn_skill(top.phrase))

\* The loop of generalize_command from the i-th skill in sorted order on:
\* it asks about that skill and waits, or is exhausted.
generalize_command(c, phrase, i) ==
    LET names == Sorted(DOMAIN c.skills)
        said == IF i = 1
                THEN <<Ev("speak", None,
                          <<"I do not know which skill you want to use.">>, None)>>
                ELSE <<>>
    IN  IF i <= Len(names)
        THEN [c EXCEPT !.stack = Append(@, Frame("generalize_command", phrase, i)),
                       !.trace = @ \o said \o <<Ev("ask", names[i], phrase, None)>>]
        ELSE Return([c EXCEPT !.trace = @ \o said], learn_skill(phrase))

learn_command_no_scan(c, phrase, i) == generalize_command(c, phrase, 1)

\* The loop of learn_command from the i-th skill of the table on: it asks
\* about the next skill whose name occurs in the phrase and waits, or goes on
\* to generalize_command.
learn_command(c, phrase, i) ==
    LET found == {j \in i..Len(order) : Contains(phrase, order[j])}
    IN  IF found # {}
        THEN LET j == CHOOSE h \in found : \A g \in found : h <= g
             IN  [c EXCEPT !.stack = Append(@, Frame("learn_command", phrase, j)),
                           !.trace = @ \o <<Ev("ask", order[j], phrase, None)>>]
        ELSE generalize_command(c, phrase, 1)

process_command(c, phrase, env) ==
    IF Truthy(phrase)
    THEN LET m == match_loop(c.skills, phrase, 1, env)
             c1 == [c EXCEPT !.trace = @ \o m.events,
                             !.exit = @ \/ m.exit]
         IN  IF m.error
             THEN [c1 EXCEPT !.stack = <<>>, !.done = TRUE, !.error = TRUE]
             ELSE IF Truthy(m.response)
                  THEN Return(c1, m.response)
                  ELSE learn_command(c1, phrase, 1)
    ELSE Return(c, <<"I do not understand what you are trying to tell me!">>)

\* listen() returns the answer a to the question of the top activation.
answer(c, a, env) ==
    LET top == Last(c.stack)
        below == [c EXCEPT !.stack = Front(c.stack)]
    IN  IF top.fn = "learn_command"
        THEN LET skill == order[top.idx]
             IN  IF a \in Affirmative
                 THEN LET r == increase_command_candidate(c.skills, threshold,
                                                          skill, top.phrase)
                      IN  process_command(
                              [c EXCEPT !.skills = r.skills,
                                        !.trace = @ \o r.events], skill, env)
                 ELSE LET r == decrease_command_candidate(c.skills, skill,
                                                          top.phrase)
                      IN  learn_command(
                              [below EXCEPT !.skills = r.skills,
                                            !.trace = @ \o r.events],
                              top.phrase, top.idx + 1)
        ELSE LET skill == Sorted(DOMAIN c.skills)[top.idx]
             IN  IF a \in {T_Skip, T_Stop}
                 THEN Return(below, learn_skill(top.phrase))
                 ELSE IF a \in Affirmative
                 THEN LET r == increase_command_candidate(c.skills, threshold,
                                                          skill, top.phrase)
                      IN  process_command(
                              [c EXCEPT !.skills = r.skills,
                                        !.trace = @ \o r.events], skill, env)
                 ELSE LET r == decrease_command_candidate(c.skills, skill,
                                                          top.phrase)
                      IN  generalize_command(
                              [below EXCEPT !.skills = r.skills,
                                            !.trace = @ \o r.events],
                              top.phrase, top.idx + 1)

\* The part of process_phrase before the call of process_command: the
\* command left of the phrase, or None.
command_of(phrase, alias, require_wake_word) ==
    IF starts_with(phrase, alias)
    THEN remove_leading_words(phrase, alias)
    ELSE IF require_wake_word THEN None ELSE phrase

\* The part of process_phrase after process_command has returned.
finish_phrase(c, phrase) ==
    IF c.done /\ ~c.error
    THEN IF Truthy(c.resp)
         THEN [c EXCEPT !.trace = @ \o <<Ev("speak", None, c.resp, None)>>]
         ELSE [c EXCEPT !.trace = @ \o <<Ev("query_web", None, phrase, None)>>]
    ELSE c

process_phrase_unguarded(c, phrase, alias, require_wake_word, env) ==
    LET command == command_of(phrase, alias, require_wake_word)
    IN  finish_phrase(process_command(c, command, env), command)

process_phrase(c, phrase, alias, require_wake_word, env) ==
    LET command == command_of(phrase, alias, require_wake_word)
    IN  IF Truthy(command)
        THEN finish_phrase(process_command(c, command, env), command)
        ELSE [c EXCEPT !.resp = None, !.done = TRUE]

(***************************************************************************)
(* The listening loop.  Each action is one return of listen() together     *)
(* with everything the program does until it listens again or the loop     *)
(* ends.                                                                   *)
(***************************************************************************)
WakeHeard == {None, Lower(DEFAULT_ALIAS), DEFAULT_ALIAS, T_Hello}

\* The commands spoken to a table: phrases built from its skills' names.
CommandHeard(sk) ==
    IF T_Lights \in DOMAIN sk
    THEN {None, T_Turn, T_Please, T_PleaseTurnOn, T_Quit}
    ELSE {None, T_MuteMe, T_PleaseMute}

AnswerHeard == {None, T_Yes, T_Affirmative, T_Skip, T_Stop, T_No}

\* A table saved by an earlier session, with candidates one reinforcement
\* short of the threshold th.
HomeSaved(th) ==
    WithCandidate(
        WithCandidate(
            WithCandidate(HomeTable, T_Lights, T_Turn, th - 1),
            T_Lights, T_Please, th - 1),
        T_TurnOn, T_PleaseTurnOn, th - 1)

Tables(th) == {HomeSaved(th), FunTable}

Init ==
    /\ threshold = DEFAULT_SKILL_THRESHOLD
    /\ skills \in Tables(threshold)
    /\ order \in TableOrders(skills)
    /\ exit_loop = FALSE
    /\ pc = "wake"
    /\ stack = <<>>
    /\ response = None
    /\ trace = <<>>
    /\ turns = 0
    /\ run = NoRun
    /\ learned = {}
    /\ modified_file = NoFile

\* The state after a step of the turn that ended in configuration c.
Continue(c) ==
    /\ Len(c.stack) <= MaxDepth
    /\ skills' = c.skills
    /\ exit_loop' = c.exit
    /\ stack' = c.stack
    /\ trace' = c.trace
    /\ response' = IF c.done THEN c.resp ELSE response
    /\ pc' = IF c.error THEN "crashed"
             ELSE IF ~c.done THEN "answer"
             ELSE IF c.exit THEN "done"
             ELSE "wake"
    /\ learned' = learned \cup
           {<<c.trace[i].skill, c.trace[i].arg>> :
               i \in {j \in DOMAIN c.trace : c.trace[j].ev = "learned"}}
    /\ UNCHANGED <<order, threshold, run, modified_file>>

ListenWake_any_case(phrase) ==
    /\ pc = "wake"
    /\ ~exit_loop
    /\ IF phrase # None /\ Lower(phrase) = Lower(DEFAULT_ALIAS)
       THEN /\ turns < MaxTurns
            /\ turns' = turns + 1
            /\ pc' = "command"
            /\ trace' = <<Ev("wake_heard", None, phrase, None),
                          Ev("speak", None, <<"Listening">>, None)>>
       ELSE /\ turns' = turns
            /\ pc' = "wake"
            /\ trace' = <<Ev("wake_heard", None, phrase, None)>>
    /\ response' = None
    /\ UNCHANGED <<skills, order, threshold, exit_loop, stack, run, learned,
                   modified_file>>

\* listen_loop hears the first utterance of an iteration.
ListenWake(phrase) ==
    /\ pc = "wake"
    /\ ~exit_loop
    /\ IF phrase = Lower(DEFAULT_ALIAS)
       THEN /\ turns < MaxTurns
            /\ turns' = turns + 1
            /\ pc' = "command"
            /\ trace' = <<Ev("wake_heard", None, phrase, None),
                          Ev("speak", None, <<"Listening">>, None)>>
       ELSE /\ turns' = turns
            /\ pc' = "wake"
            /\ trace' = <<Ev("wake_heard", None, phrase, None)>>
    /\ response' = None
    /\ UNCHANGED <<skills, order, threshold, exit_loop, stack, run, learned,
                   modified_file>>

\* listen_loop hears the utterance after the wake word and calls
\* process_phrase.
ListenCommand(phrase, env) ==
    /\ pc = "command"
    /\ Continue(process_phrase(
           Config(skills, exit_loop, <<>>,
                  <<Ev("command_heard", None, phrase, None)>>),
           phrase, DEFAULT_ALIAS, FALSE, env))
    /\ UNCHANGED turns

\* The learning protocol hears the answer to its question.
ListenAnswer(phrase, env) ==
    /\ pc = "answer"
    /\ LET asked == IF Last(stack).fn = "learn_command"
                    THEN order[Last(stack).idx]
                    ELSE Sorted(DOMAIN skills)[Last(stack).idx]
       IN  Continue(finish_phrase(
               answer(Config(skills, exit_loop, stack,
                             <<Ev(Last(stack).fn, asked, phrase,
                                  Last(stack).phrase)>>),
                      phrase, env),
               stack[1].phrase))
    /\ UNCHANGED turns

Next ==
    \/ \E phrase \in WakeHeard : ListenWake(phrase)
    \/ \E phrase \in CommandHeard(skills), env \in Envs(skills) : ListenCommand(phrase, env)
    \/ \E phrase \in AnswerHeard, env \in Envs(skills) : ListenAnswer(phrase, env)

Spec == Init /\ [][Next]_vars

(***************************************************************************)
(* The reinforcement counter on its own: any sequence of calls of          *)
(* increase_command_candidate and decrease_command_candidate.              *)
(***************************************************************************)
CounterPhrases == {T_Turn, T_Please}

CounterSkills == {T_Lights, T_TurnOn}

\* The calls made: two phrases for one skill, one of them for another skill.
CounterCalls ==
    {<<T_Lights, T_Turn>>, <<T_Lights, T_Please>>, <<T_TurnOn, T_Turn>>}

InitCounter ==
    /\ threshold \in 1..MaxThreshold
    /\ \E n \in 0..(threshold - 1) :
           skills \in {HomeTable, WithCandidate(HomeTable, T_Lights, T_Turn, n)}
    /\ order = <<T_Lights, T_TurnOn, T_Quit>>
    /\ exit_loop = FALSE
    /\ pc = "api"
    /\ stack = <<>>
    /\ response = None
    /\ trace = <<>>
    /\ turns = 0
    /\ run = NoRun
    /\ learned = {}
    /\ modified_file = NoFile

Fresh(skill, command) ==
    /\ command \notin DOMAIN skills[skill].candidates
    /\ ~InSeq(command, skills[skill].commands)

CallIncrease(skill, command) ==
    LET r == increase_command_candidate(skills, threshold, skill, command)
    IN  /\ pc = "api"
        /\ Len(r.skills[skill].commands) <= MaxCommands
        /\ skills' = r.skills
        /\ trace' = r.events
        /\ run' = IF Fresh(skill, command)
                  THEN [skill |-> skill, phrase |-> command, n |-> 1]
                  ELSE IF run.skill = skill /\ run.phrase = command
                          /\ run.n > 0 /\ run.n < threshold
                       THEN [run EXCEPT !.n = @ + 1]
                       ELSE NoRun
        /\ UNCHANGED <<order, threshold, exit_loop, pc, stack, response, turns,
                       learned,
                   modified_file>>

CallDecrease(skill, command) ==
    LET r == decrease_command_candidate(skills, skill, command)
    IN  /\ pc = "api"
        /\ skills' = r.skills
        /\ trace' = r.events
        /\ run' = NoRun
        /\ UNCHANGED <<order, threshold, exit_loop, pc, stack, response, turns,
                       learned,
                   modified_file>>

NextCounter ==
    \/ \E call \in CounterCalls : CallIncrease(call[1], call[2])
    \/ \E call \in CounterCalls : CallDecrease(call[1], call[2])

SpecCounter == InitCounter /\ [][NextCounter]_vars

(***************************************************************************)
(* Properties of the counter.                                              *)
(***************************************************************************)
Candidates(skill) == skills[skill].candidates

\* C1: every candidate count present in a skill satisfies
\* 0 <= count < threshold in every reachable state.
C1_CountInRange ==
    \A skill \in DOMAIN skills : \A command \in DOMAIN Candidates(skill) :
        0 <= Candidates(skill)[command] /\ Candidates(skill)[command] < threshold

\* C2: no phrase is at the same time one of a skill's commands and a key of
\* that skill's candidates.
C2_Exclusive ==
    \A skill \in DOMAIN skills : \A command \in DOMAIN Candidates(skill) :
        ~InSeq(command, skills[skill].commands)

LastCall(e, skill, command) ==
    /\ trace' # <<>>
    /\ trace'[1].ev = e /\ trace'[1].skill = skill /\ trace'[1].arg = command

Spoke(e, skill, command) ==
    \E i \in DOMAIN trace' :
        trace'[i].ev = e /\ trace'[i].skill = skill /\ trace'[i].arg = command

\* C3: a phrase is appended to a skill's commands exactly once, when its
\* count reaches the threshold, so the commands never hold one phrase twice;
\* a phrase whose count drops below 0 leaves candidates and is not added to
\* the commands.
C3_PromotedOnce ==
    [][\A skill \in DOMAIN skills :
         /\ \A command \in CounterPhrases :
              /\ Occurrences(command, skills'[skill].commands) <= 1
              /\ Spoke("learned", skill, command) =>
                    /\ skills'[skill].commands =
                          Append(skills[skill].commands, command)
                    /\ command \notin DOMAIN skills'[skill].candidates
              /\ Spoke("forgotten", skill, command) =>
                    /\ skills'[skill].commands = skills[skill].commands
                    /\ command \notin DOMAIN skills'[skill].candidates
       ]_vars

\* C4: starting from a phrase that is neither a candidate nor a command,
\* the k-th consecutive increase leaves the count k while k < threshold, and
\* the threshold-th increase removes the candidate and appends the command.
C4_PromotedAtThreshold ==
    run.n > 0 =>
        LET skill == run.skill
            command == run.phrase
        IN  IF run.n < threshold
            THEN /\ command \in DOMAIN Candidates(skill)
                 /\ Candidates(skill)[command] = run.n
                 /\ ~InSeq(command, skills[skill].commands)
            ELSE /\ command \notin DOMAIN Candidates(skill)
                 /\ InSeq(command, skills[skill].commands)

\* C5: decrease_command_candidate changes nothing when the phrase is not a
\* candidate; otherwise it decrements the count by one, and deletes the
\* candidate when the count was 0; no negative count is stored.
C5_DecreaseEffect ==
    [][/\ \A skill \in CounterSkills, command \in CounterPhrases :
            LastCall("dec", skill, command) =>
               IF command \notin DOMAIN Candidates(skill)
               THEN skills' = skills
               ELSE IF Candidates(skill)[command] = 0
                    THEN skills' = [skills EXCEPT ![skill].candidates =
                                      Del(@, command)]
                    ELSE skills' = [skills EXCEPT ![skill].candidates =
                                      Put(@, command, @[command] - 1)]
       /\ \A skill \in DOMAIN skills' :
            \A command \in DOMAIN skills'[skill].candidates :
               skills'[skill].candidates[command] >= 0
      ]_vars

\* C5 witness: the last call was a decrease of a candidate whose count was 0,
\* which was forgotten, while another candidate is still stored.
C5_Witness ==
    /\ pc = "api"
    /\ trace # <<>>
    /\ trace[1].ev = "dec"
    /\ \E i \in DOMAIN trace : trace[i].ev = "forgotten"
    /\ \E skill \in DOMAIN skills : Candidates(skill) # <<>>

(***************************************************************************)
(* Properties of the interpreter and of the learning protocol.             *)
(***************************************************************************)
EventsOf(e) == {i \in DOMAIN trace : trace[i].ev = e}

DoSkills == SelectSeq(trace, LAMBDA x : x.ev = "do_skill")

\* The phrase handed to process_command in the last step, or None.
Processed ==
    IF trace = <<>> THEN None
    ELSE IF trace[1].ev = "command_heard"
    THEN command_of(trace[1].arg, DEFAULT_ALIAS, FALSE)
    ELSE IF trace[1].ev \in {"learn_command", "generalize_command"}
            /\ trace[1].arg \in Affirmative
    THEN trace[1].skill
    ELSE None

\* The positions <<i, k>> of the leaders that a phrase starts with: the k-th
\* of [skill] + commands of the i-th skill of the table.
Leaders(i) == <<order[i]>> \o skills[order[i]].commands

Matches(phrase) ==
    UNION {{<<i, k>> : k \in {h \in DOMAIN Leaders(i) :
                                 remove_leading_words(phrase, Leaders(i)[h]) # phrase}} :
           i \in DOMAIN order}

FirstMatch(phrase) ==
    CHOOSE m \in Matches(phrase) :
        \A n \in Matches(phrase) :
            m[1] < n[1] \/ (m[1] = n[1] /\ m[2] <= n[2])

TurnEnded == pc \in {"wake", "done"} /\ stack = <<>>

\* C6: the first leader, in table order, whose stripping changes the phrase
\* determines the one skill dispatched and its operand; no other skill is
\* dispatched and no question of the learning protocol is asked, whatever
\* the response of that skill.
C6_FirstMatchWins ==
    (Truthy(Processed) /\ Matches(Processed) # {}) =>
        LET m == FirstMatch(Processed)
            skill == order[m[1]]
            leader == (<<skill>> \o skills[skill].commands)[m[2]]
        IN  /\ Len(DoSkills) = 1
            /\ DoSkills[1].skill = skill
            /\ DoSkills[1].arg = remove_leading_words(Processed, leader)
            /\ EventsOf("ask") = {}

\* C7: after an affirmative answer to the question about skill S the phrase
\* is reinforced for S exactly once, no further question is asked, and the
\* turn ends with the response of the dispatch of S itself.
C7_AffirmativeDispatches ==
    (/\ trace # <<>>
     /\ trace[1].ev \in {"learn_command", "generalize_command"}
     /\ trace[1].arg \in Affirmative) =>
        /\ Cardinality(EventsOf("inc")) = 1
        /\ \A i \in EventsOf("inc") :
              trace[i].skill = trace[1].skill /\ trace[i].arg = trace[1].resp
        /\ EventsOf("dec") = {}
        /\ EventsOf("ask") = {}
        /\ TurnEnded
        /\ Len(DoSkills) = 1
        /\ DoSkills[1].skill = trace[1].skill
        /\ response = DoSkills[1].resp

\* C8: once a phrase has been promoted into the commands of skill S, every
\* later interpretation of the phrase dispatches S directly: no question is
\* asked and no candidate entry of the phrase is created or changed.
C8_LearnedCommandDispatches ==
    (/\ trace # <<>>
     /\ trace[1].ev = "command_heard"
     /\ \E skill \in DOMAIN skills : <<skill, Processed>> \in learned) =>
        /\ TurnEnded
        /\ EventsOf("ask") = {}
        /\ EventsOf("inc") = {} /\ EventsOf("dec") = {}
        /\ Len(DoSkills) = 1
        /\ <<DoSkills[1].skill, Processed>> \in learned

\* C9: after the answer skip or stop in generalize_command no candidate count
\* is increased or decreased, no further skill is asked about and the turn
\* ends with no response.
C9_SkipAborts ==
    (/\ trace # <<>>
     /\ trace[1].ev = "generalize_command"
     /\ trace[1].arg \in {T_Skip, T_Stop}) =>
        /\ EventsOf("inc") = {} /\ EventsOf("dec") = {}
        /\ EventsOf("ask") = {}
        /\ TurnEnded
        /\ ~Truthy(response)

QuitDispatched == \E i \in EventsOf("do_skill") : trace[i].skill = T_Quit

\* C10: when the quit skill is dispatched in a turn of listen_loop the exit
\* flag is true, the turn returns 'Stopping now', the loop has ended, and
\* nothing more is heard or processed by it.
C10_QuitEndsLoop ==
    /\ [](QuitDispatched =>
            /\ exit_loop
            /\ pc = "done"
            /\ stack = <<>>
            /\ response = <<"Stopping now">>)
    /\ [][exit_loop => (pc = "done" /\ UNCHANGED <<skills, trace, pc, stack>>)]_vars

\* C10 witness: the loop has ended after a turn that dispatched quit.
C10_Witness ==
    /\ QuitDispatched
    /\ pc = "done"
    /\ exit_loop

(***************************************************************************)
(* Properties of the iterations of listen_loop.                            *)
(***************************************************************************)
\* C22: listen_loop hands a command utterance to process_phrase only right
\* after an utterance equal to the lower-cased alias; an iteration whose
\* first utterance is absent or is any other phrase processes nothing,
\* leaves the table and the exit flag as they are, and the loop waits for
\* the wake word again.
C22_WakeWordGates ==
    [][/\ trace'[1].ev = "command_heard" =>
             /\ pc = "command"
             /\ trace[1].ev = "wake_heard"
             /\ trace[1].arg = Lower(DEFAULT_ALIAS)
       /\ (trace'[1].ev = "wake_heard" /\ trace'[1].arg = Lower(DEFAULT_ALIAS)) =>
             pc' = "command"
       /\ (trace'[1].ev = "wake_heard" /\ trace'[1].arg # Lower(DEFAULT_ALIAS)) =>
             /\ Len(trace') = 1
             /\ pc' = "wake"
             /\ skills' = skills
             /\ exit_loop' = exit_loop
             /\ stack' = stack
             /\ response' = None
      ]_vars

\* C22 witness: after a turn that learned a command, the loop has heard the
\* alias with its capital letter, which is not the wake word, and waits for
\* the wake word again.
C22_Witness ==
    /\ pc = "wake"
    /\ trace = <<Ev("wake_heard", None, DEFAULT_ALIAS, None)>>
    /\ turns >= 1
    /\ learned # {}

(***************************************************************************)
(* A client that calls the listening loops of one assistant one after the  *)
(* other.  pc = "idle" when no loop is running: before the first call and  *)
(* after a loop has returned.  listen_background hands audio_to_text to    *)
(* the recognizer as its callback, which turns audio into text and         *)
(* nothing else.                                                           *)
(***************************************************************************)
InitLoops ==
    /\ threshold = DEFAULT_SKILL_THRESHOLD
    /\ skills = HomeTable
    /\ order = <<T_Lights, T_TurnOn, T_Quit>>
    /\ exit_loop = FALSE
    /\ pc = "idle"
    /\ stack = <<>>
    /\ response = None
    /\ trace = <<>>
    /\ turns = 0
    /\ run = NoRun
    /\ learned = {}
    /\ modified_file = NoFile

\* listen_loop is called and tests the flag for the first time.
CallListenLoop ==
    /\ pc = "idle"
    /\ pc' = IF exit_loop THEN "idle" ELSE "wake"
    /\ trace' = <<Ev("listen_loop", None, None, None)>>
              \o (IF exit_loop THEN <<Ev("returned", None, None, None)>> ELSE <<>>)
    /\ UNCHANGED <<skills, order, threshold, exit_loop, stack, response, turns,
                   run, learned,
                   modified_file>>

\* listen_loop has found the flag true and returns.
ReturnListenLoop ==
    /\ pc = "done"
    /\ pc' = "idle"
    /\ trace' = <<Ev("returned", None, None, None)>>
    /\ UNCHANGED <<skills, order, threshold, exit_loop, stack, response, turns,
                   run, learned,
                   modified_file>>

\* listen_background is called and tests the flag for the first time: it
\* resets the flag and returns, or starts its first cycle.
CallListenBackground ==
    /\ pc = "idle"
    /\ pc' = IF exit_loop THEN "idle" ELSE "background"
    /\ exit_loop' = FALSE
    /\ trace' = <<Ev("listen_background", None, None, None)>>
              \o (IF exit_loop THEN <<Ev("returned", None, None, None)>> ELSE <<>>)
    /\ UNCHANGED <<skills, order, threshold, stack, response, turns, run,
                   learned,
                   modified_file>>

\* A cycle of listen_background: the recognizer calls audio_to_text, whose
\* result goes nowhere, and the loop tests the flag again.
BackgroundCycle(phrase) ==
    /\ pc = "background"
    /\ ~exit_loop
    /\ trace' = <<Ev("audio_to_text", None, phrase, None)>>
    /\ UNCHANGED <<skills, order, threshold, exit_loop, pc, stack, response,
                   turns, run, learned,
                   modified_file>>

NextLoops ==
    \/ CallListenLoop
    \/ ReturnListenLoop
    \/ CallListenBackground
    \/ \E phrase \in CommandHeard(skills) : BackgroundCycle(phrase)
    \/ \E phrase \in WakeHeard : ListenWake(phrase)
    \/ \E phrase \in CommandHeard(skills), env \in Envs(skills) : ListenCommand(phrase, env)
    \/ \E phrase \in AnswerHeard, env \in Envs(skills) : ListenAnswer(phrase, env)

SpecLoops == InitLoops /\ [][NextLoops]_vars

\* C11: the exit flag becomes true only in a step that dispatches quit, and
\* when no listening loop is running (none was called yet, or the one that
\* was called has returned) the flag is false, so that a loop called next
\* starts listening.
C11_FlagResetOnReturn ==
    /\ [][(~exit_loop /\ exit_loop') =>
            \E i \in DOMAIN trace' :
                trace'[i].ev = "do_skill" /\ trace'[i].skill = T_Quit]_vars
    /\ [](pc = "idle" => ~exit_loop)
    /\ [][(pc = "idle" /\ trace'[1].ev = "listen_loop") => pc' = "wake"]_vars

(***************************************************************************)
(* The loops under the scheduling of listen_background: a cycle ends after *)
(* its duty time, when the loop stops the listener and tests the flag      *)
(* again, so a running listen_background keeps taking cycles.              *)
(***************************************************************************)
BackgroundRuns == \E phrase \in CommandHeard(skills) : BackgroundCycle(phrase)

SpecBackground == SpecLoops /\ WF_vars(BackgroundRuns)

\* The background listener has heard the quit command in its last cycle.
QuitSpokenInBackground ==
    /\ pc = "background"
    /\ trace # <<>>
    /\ trace[1].ev = "audio_to_text"
    /\ trace[1].arg = T_Quit

\* C21: when the quit command is spoken while listen_background is running,
\* the exit flag is set, and listen_background eventually returns with the
\* flag reset to false.
C21_BackgroundStops ==
    /\ QuitSpokenInBackground ~> exit_loop
    /\ QuitSpokenInBackground ~> (pc = "idle" /\ ~exit_loop)

(***************************************************************************)
(* A client that makes one call of the interpreter on an assistant that    *)
(* has just loaded its table: process_phrase, as main does when it is not  *)
(* in continuous mode, with or without require_wake_word, or               *)
(* process_command.  Here the trace is the history of the whole call: the  *)
(* call, then the events of every step up to the return.                   *)
(***************************************************************************)
T_PandaPlease == DEFAULT_ALIAS \o <<" ">> \o T_Please

T_PandaLights == Lower(DEFAULT_ALIAS) \o <<" ">> \o T_Lights

T_PandaSpace == Lower(DEFAULT_ALIAS) \o <<" ">>

\* The phrases handed to the call: absent, empty, and for the home table the
\* wake word alone and commands with and without the wake word, for the
\* other table a command of its first skill that names its second.
CallHeard(sk) ==
    {None, <<>>}
    \cup (IF T_Lights \in DOMAIN sk
          THEN {DEFAULT_ALIAS, T_PandaSpace, T_Please, T_Lights, T_PandaPlease,
                T_PandaLights}
          ELSE {T_MuteMe})

\* A table with a skill that answers at random, with the empty string among
\* its answers, before a skill that is handled by the code.
JokeTable ==
    (T_Joke :> [commands |-> <<T_MuteMe>>, candidates |-> <<>>,
                random |-> << <<>>, <<"Knock knock">> >>])
    @@ (T_Mute :> Skill(<<>>, <<>>))

InitCall ==
    /\ threshold = DEFAULT_SKILL_THRESHOLD
    /\ skills \in {HomeSaved(threshold), JokeTable}
    /\ order \in TableOrders(skills)
    /\ exit_loop = FALSE
    /\ pc = "idle"
    /\ stack = <<>>
    /\ response = None
    /\ trace = <<>>
    /\ turns = 0
    /\ run = NoRun
    /\ learned = {}
    /\ modified_file = NoFile

\* The state after a step of the call that ended in the configuration end.
Complete(end) ==
    \E c \in {end} :
        /\ Len(c.stack) <= MaxDepth
        /\ skills' = c.skills
        /\ exit_loop' = c.exit
        /\ stack' = c.stack
        /\ trace' = c.trace
        /\ response' = IF c.done THEN c.resp ELSE response
        /\ pc' = IF c.error THEN "crashed"
                 ELSE IF ~c.done THEN "asked"
                 ELSE "returned"
        /\ turns' = 1
        /\ UNCHANGED <<order, threshold, run, learned, modified_file>>

CallProcessPhrase(phrase, require_wake_word, env) ==
    /\ pc = "idle"
    /\ Complete(process_phrase(
           Config(skills, exit_loop, <<>>,
                  <<Ev(IF require_wake_word THEN "process_phrase_wake_required"
                       ELSE "process_phrase", None, phrase, None)>>),
           phrase, DEFAULT_ALIAS, require_wake_word, env))

CallProcessCommand(phrase, env) ==
    /\ pc = "idle"
    /\ Complete(process_command(
           Config(skills, exit_loop, <<>>,
                  <<Ev("process_command", None, phrase, None)>>),
           phrase, env))

\* listen() returns the answer to the question the call has asked.
AnswerCall(phrase, env) ==
    /\ pc = "asked"
    /\ LET asked == IF Last(stack).fn = "learn_command"
                    THEN order[Last(stack).idx]
                    ELSE Sorted(DOMAIN skills)[Last(stack).idx]
       IN  \E heard \in {Config(skills, exit_loop, stack,
                                trace \o <<Ev(Last(stack).fn, asked, phrase,
                                              Last(stack).phrase)>>)} :
               \E c \in {answer(heard, phrase, env)} :
                   Complete(IF trace[1].ev = "process_command"
                            THEN c
                            ELSE finish_phrase(c, stack[1].phrase))

NextCall ==
    \/ \E phrase \in CallHeard(skills), require_wake_word \in BOOLEAN,
          env \in Envs(skills) :
           CallProcessPhrase(phrase, require_wake_word, env)
    \/ \E phrase \in CallHeard(skills), env \in Envs(skills) :
           CallProcessCommand(phrase, env)
    \/ \E phrase \in AnswerHeard, env \in Envs(skills) : AnswerCall(phrase, env)

SpecCall == InitCall /\ [][NextCall]_vars

(***************************************************************************)
(* Properties of one call of the interpreter.                              *)
(***************************************************************************)
CallEvents(e) == {i \in DOMAIN trace' : trace'[i].ev = e}

\* C12: process_phrase with require_wake_word set and a phrase that does not
\* start with the wake word returns at once with a non-empty response that
\* carries the heard phrase; no skill is dispatched, no question is asked
\* and the table is not changed.
C12_WakeWordRequired ==
    [][(/\ pc = "idle"
        /\ trace'[1].ev = "process_phrase_wake_required"
        /\ ~starts_with(trace'[1].arg, DEFAULT_ALIAS)) =>
           /\ pc' = "returned"
           /\ Truthy(response')
           /\ Contains(response', trace'[1].arg)
           /\ CallEvents("do_skill") = {} /\ CallEvents("ask") = {}
           /\ CallEvents("inc") = {} /\ CallEvents("dec") = {}
           /\ skills' = skills
      ]_vars

\* The utterance of the call is absent or empty, or is the wake word alone.
NothingSaid(phrase) ==
    \/ ~Truthy(phrase)
    \/ /\ starts_with(phrase, DEFAULT_ALIAS)
       /\ remove_leading_words(phrase, DEFAULT_ALIAS) = <<>>

\* C13 as stated: a call of process_phrase or process_command with an absent
\* or empty utterance, or with one that is empty once the wake word is
\* stripped, returns the 'I do not understand' response and does not raise.
C13_NothingSaidNotUnderstood ==
    [][(/\ pc = "idle"
        /\ \/ trace'[1].ev = "process_phrase" /\ NothingSaid(trace'[1].arg)
           \/ trace'[1].ev = "process_command" /\ ~Truthy(trace'[1].arg)) =>
           /\ pc' = "returned"
           /\ response' = <<"I do not understand what you are trying to tell me!">>
      ]_vars

\* C13 amended: with an absent or empty utterance process_command returns
\* the 'I do not understand' response; process_phrase (wake word not
\* required) returns no response and says nothing, also when the phrase is
\* empty once the wake word is stripped; remove_leading_words returns the
\* utterance as it is and starts_with is false.  None of them raises, asks
\* a question, dispatches a skill or changes the table.
C13_NothingSaid ==
    [][pc = "idle" =>
         /\ (trace'[1].ev = "process_command" /\ ~Truthy(trace'[1].arg)) =>
               /\ pc' = "returned"
               /\ response' = <<"I do not understand what you are trying to tell me!">>
               /\ Len(trace') = 1
               /\ skills' = skills
         /\ (trace'[1].ev = "process_phrase" /\ NothingSaid(trace'[1].arg)) =>
               /\ pc' = "returned"
               /\ response' = None
               /\ Len(trace') = 1
               /\ skills' = skills
         /\ ~Truthy(trace'[1].arg) =>
               /\ remove_leading_words(trace'[1].arg, DEFAULT_ALIAS) = trace'[1].arg
               /\ ~starts_with(trace'[1].arg, DEFAULT_ALIAS)
      ]_vars

\* C13 witness: process_phrase was called with the wake word alone and has
\* returned.
C13_Witness ==
    /\ pc = "returned"
    /\ Len(trace) = 1
    /\ trace[1].ev = "process_phrase"
    /\ trace[1].arg = T_PandaSpace

Answers == EventsOf("learn_command") \cup EventsOf("generalize_command")

\* The call went into the learning protocol without a dispatch, and every
\* question asked so far was answered with no or with nothing.
AllNegative ==
    /\ trace # <<>>
    /\ trace[1].ev \in {"process_command", "process_phrase"}
    /\ EventsOf("do_skill") = {}
    /\ EventsOf("ask") # {}
    /\ \A i \in Answers : trace[i].arg \in {None, T_No}

\* The question at position i of the trace was answered and the phrase was
\* then penalized for the skill asked about.
Penalized(i) ==
    /\ i + 2 <= Len(trace)
    /\ trace[i + 1].ev \in {"learn_command", "generalize_command"}
    /\ trace[i + 1].skill = trace[i].skill
    /\ trace[i + 2].ev = "dec"
    /\ trace[i + 2].skill = trace[i].skill
    /\ trace[i + 2].arg = trace[i].arg

\* C14: when the phrase matches nothing and every question is answered
\* negatively or not at all, the call does not raise, asks at most one
\* question per skill in learn_command and one in generalize_command,
\* reinforces nothing, and returns no response after it has penalized the
\* phrase for every skill it asked about.
C14_AllNegative ==
    AllNegative =>
        /\ pc \in {"asked", "returned"}
        /\ EventsOf("inc") = {}
        /\ Cardinality(EventsOf("ask")) <= 2 * Len(order)
        /\ pc = "asked" =>
              /\ trace[Len(trace)].ev = "ask"
              /\ \A i \in EventsOf("ask") \ {Len(trace)} : Penalized(i)
        /\ pc = "returned" =>
              /\ response = None
              /\ stack = <<>>
              /\ \A i \in EventsOf("ask") : Penalized(i)

\* C14 witness: process_command has returned after a question of
\* learn_command and a question of generalize_command about every skill,
\* all answered negatively.
C14_Witness ==
    /\ AllNegative
    /\ pc = "returned"
    /\ trace[1].ev = "process_command"
    /\ EventsOf("learn_command") # {}
    /\ Cardinality(EventsOf("generalize_command")) = Len(order)

(***************************************************************************)
(* A client that calls process_command with a phrase that matches nothing  *)
(* and answers the questions of the learning protocol, on a table saved by *)
(* an earlier session and on a table written by hand, in which the name of *)
(* a skill has two spaces between its words.                               *)
(***************************************************************************)
T_TurnWideOn == <<"t", "u", "r", "n", " ", " ", "o", "n">>

SpacedTable ==
    (T_Lights :> [commands |-> <<>>, candidates |-> <<>>,
                  response |-> <<"Let there be light">>])
    @@ (T_TurnWideOn :> Skill(<<>>, <<>>))

\* Phrases that start with no skill name and no command: one that names no
\* skill, and one with the name of a skill in it.
LearnHeard == {T_Please, T_PandaLights}

\* The answers given to the questions about a table.
LearnAnswers(sk) ==
    IF T_Quit \in DOMAIN sk THEN AnswerHeard ELSE {T_Yes, T_No}

\* The saved tables: the second phrase is a candidate of the skill it names,
\* with any count below the threshold, and of another skill with count 1.
LearnTables(th) ==
    {WithCandidate(
         WithCandidate(HomeSaved(th), T_Lights, T_PandaLights, n),
         T_TurnOn, T_PandaLights, 1) : n \in 0..(th - 1)}
    \cup {SpacedTable}

InitLearn ==
    /\ threshold = DEFAULT_SKILL_THRESHOLD
    /\ skills \in LearnTables(threshold)
    /\ order \in TableOrders(skills)
    /\ exit_loop = FALSE
    /\ pc = "idle"
    /\ stack = <<>>
    /\ response = None
    /\ trace = <<>>
    /\ turns = 0
    /\ run = NoRun
    /\ learned = {}
    /\ modified_file = NoFile

\* listen() returns a to every question the call asks, until it returns.
RECURSIVE answer_all(_, _, _)
answer_all(c, a, env) ==
    IF c.done THEN c
    ELSE LET top == Last(c.stack)
             asked == IF top.fn = "learn_command" THEN order[top.idx]
                      ELSE Sorted(DOMAIN c.skills)[top.idx]
         IN  answer_all(
                 answer([c EXCEPT !.trace =
                            Append(@, Ev(top.fn, asked, a, top.phrase))],
                        a, env),
                 a, env)

\* A whole learning turn with a user who refuses every question, or says
\* nothing: process_command from its call to its return.
CallProcessCommandRefused(phrase, a, env) ==
    /\ pc = "idle"
    /\ Complete(answer_all(
           process_command(
               Config(skills, exit_loop, <<>>,
                      <<Ev("process_command", None, phrase, None)>>),
               phrase, env),
           a, env))

NextLearn ==
    \/ \E phrase \in LearnHeard, env \in Envs(skills) :
           CallProcessCommand(phrase, env)
    \/ \E phrase \in LearnAnswers(skills), env \in Envs(skills) :
           AnswerCall(phrase, env)
    \/ \E phrase \in LearnHeard, a \in {None, T_No}, env \in Envs(skills) :
           CallProcessCommandRefused(phrase, a, env)

SpecLearn == InitLearn /\ [][NextLearn]_vars

\* Every dispatch of every skill of the table returns a non-empty response.
AlwaysResponds(sk) ==
    \A skill \in DOMAIN sk, operand \in {<<>>, T_Lights}, env \in Envs(sk) :
        /\ ~do_skill(sk, skill, operand, env).error
        /\ Truthy(do_skill(sk, skill, operand, env).response)

\* C23: when every dispatch of every skill responds, a call of
\* process_command asks at most one question per skill in learn_command and
\* one per skill in generalize_command, whatever the answers: it never asks
\* a question from inside the dispatch that follows a yes, it consumes at
\* most 2 * |skills| answers, and it has returned when it has consumed that
\* many.
C23_LearningTerminates ==
    (/\ trace # <<>>
     /\ trace[1].ev = "process_command"
     /\ AlwaysResponds(skills)) =>
        /\ pc \in {"asked", "returned"}
        /\ Len(stack) <= 1
        /\ Cardinality(EventsOf("ask")) <= 2 * Len(order)
        /\ Cardinality(Answers) <= 2 * Len(order)
        /\ Cardinality(Answers) = 2 * Len(order) => pc = "returned"

\* The events e about a skill in the trace of the call just made.
CallEventsAbout(e, skill) ==
    {i \in DOMAIN trace' : trace'[i].ev = e /\ trace'[i].skill = skill}

\* C24: in a learning turn in which every answer is negative, a skill whose
\* name occurs in the phrase is asked about and penalized twice, every other
\* skill once; so a candidate of a name-matching skill with count 0 or 1 is
\* forgotten in that turn and one with a higher count loses two, while a
\* candidate of another skill loses one.
C24_NamedPenalizedTwice ==
    [][(pc = "idle" /\ pc' = "returned" /\ AllNegative') =>
         \A skill \in DOMAIN skills :
             LET phrase == trace'[1].arg
                 times == IF Contains(phrase, skill) THEN 2 ELSE 1
                 before == skills[skill].candidates
                 after == skills'[skill].candidates
             IN  /\ Cardinality(CallEventsAbout("ask", skill)) = times
                 /\ Cardinality(CallEventsAbout("dec", skill)) = times
                 /\ skills'[skill].commands = skills[skill].commands
                 /\ phrase \in DOMAIN before =>
                       IF before[phrase] < times
                       THEN /\ phrase \notin DOMAIN after
                            /\ Cardinality(CallEventsAbout("forgotten", skill)) = 1
                       ELSE /\ phrase \in DOMAIN after
                            /\ after[phrase] = before[phrase] - times
      ]_vars

\* C24 witness: a turn with only negative answers has returned in which the
\* skill named in the phrase was penalized twice and its candidate was
\* forgotten at the second penalty, and another skill still holds the phrase
\* as a candidate.
C24_Witness ==
    /\ AllNegative
    /\ pc = "returned"
    /\ trace[1].arg = T_PandaLights
    /\ \E i, j, k \in DOMAIN trace :
          /\ i < j /\ k = j + 1
          /\ trace[i].ev = "dec" /\ trace[i].skill = T_Lights
          /\ trace[i + 1].ev # "forgotten"
          /\ trace[j].ev = "dec" /\ trace[j].skill = T_Lights
          /\ trace[k].ev = "forgotten" /\ trace[k].skill = T_Lights
    /\ T_PandaLights \notin DOMAIN skills[T_Lights].candidates
    /\ T_PandaLights \in DOMAIN skills[T_TurnOn].candidates

(***************************************************************************)
(* A client that calls the dispatcher, do_skill, on tables of every shape  *)
(* a skills file can give an entry: commands and candidates, with a fixed  *)
(* response, with a list of random responses, or with neither.             *)
(***************************************************************************)
InfoTable ==
    (T_Help :> Skill(<<>>, <<>>))
    @@ (T_Date :> [commands |-> <<>>, candidates |-> <<>>,
                   pattern |-> <<"Today is ", "%A">>])
    @@ (T_Time :> Skill(<<>>, <<>>))
    @@ (T_Lights :> [commands |-> <<T_Turn, T_Please>>, candidates |-> <<>>,
                     response |-> <<"Let there be light">>])
    @@ (T_Joke :> [commands |-> <<T_MuteMe>>, candidates |-> <<>>,
                   random |-> << <<"Knock knock">>, <<"Why did the chicken">> >>])
    @@ (T_TurnOn :> Skill(<<>>, (T_Please :> 1)))
    @@ (T_Mute :> Skill(<<>>, <<>>))
    @@ (T_Quit :> Skill(<<>>, <<>>))

\* The entries of the documented shape that differ from InfoTable: a date
\* with commands and candidates only, and random lists that are empty or
\* hold an empty string.
DispatchTables ==
    {InfoTable,
     [InfoTable EXCEPT ![T_Date] = Skill(<<>>, <<>>)],
     [InfoTable EXCEPT ![T_Joke].random = <<>>],
     [InfoTable EXCEPT ![T_Joke].random = << <<>>, <<"Knock knock">> >>]}

DispatchOrder ==
    <<T_Joke, T_Lights, T_Help, T_Date, T_Time, T_TurnOn, T_Mute, T_Quit>>

Operands == {<<>>, T_Lights, T_Joke, T_Please}

InitDispatch ==
    /\ threshold = DEFAULT_SKILL_THRESHOLD
    /\ skills \in DispatchTables
    /\ order = DispatchOrder
    /\ exit_loop = FALSE
    /\ pc = "idle"
    /\ stack = <<>>
    /\ response = None
    /\ trace = <<>>
    /\ turns = 0
    /\ run = NoRun
    /\ learned = {}
    /\ modified_file = NoFile

CallDoSkill(skill, operand, env) ==
    LET d == do_skill(skills, skill, operand, env)
    IN  /\ pc = "idle"
        /\ pc' = IF d.error THEN "crashed" ELSE "idle"
        /\ response' = d.response
        /\ exit_loop' = (exit_loop \/ d.exit)
        /\ trace' = <<Ev("do_skill", skill, operand, d.response)>>
        /\ UNCHANGED <<skills, order, threshold, stack, turns, run, learned,
                   modified_file>>

NextDispatch ==
    \E skill \in DOMAIN skills, operand \in Operands, env \in Envs(skills) :
        CallDoSkill(skill, operand, env)

SpecDispatch == InitDispatch /\ [][NextDispatch]_vars

\* C15: do_skill raises no error for an entry of any of the documented
\* shapes: every call returns a response.
C15_DispatchTotal ==
    /\ pc # "crashed"
    /\ (trace # <<>> /\ trace[1].ev = "do_skill") => response # None

(***************************************************************************)
(* The phrase utilities on their own: remove_leading_words and starts_with *)
(* applied to a phrase and a leader.  The phrase is absent or a string of  *)
(* at most MaxLen characters, the leader a string of fewer characters,     *)
(* over an alphabet with a letter in both cases and the space.             *)
(***************************************************************************)
Alphabet == {"p", "P", " "}

Strings(n) == UNION {[1..k -> Alphabet] : k \in 0..n}

PyBool(b) == IF b THEN <<"True">> ELSE <<"False">>

InitWords ==
    /\ threshold = DEFAULT_SKILL_THRESHOLD
    /\ skills = HomeTable
    /\ order = <<T_Lights, T_TurnOn, T_Quit>>
    /\ exit_loop = FALSE
    /\ pc = "idle"
    /\ stack = <<>>
    /\ response = None
    /\ \E phrase \in Strings(MaxLen) \cup {None}, leader \in Strings(MaxLen - 1) :
           trace = <<Ev("input", leader, phrase, None)>>
    /\ turns = 0
    /\ run = NoRun
    /\ learned = {}
    /\ modified_file = NoFile

CallRemoveLeadingWords ==
    /\ pc = "idle"
    /\ pc' = "returned"
    /\ response' = remove_leading_words(trace[1].arg, trace[1].skill)
    /\ trace' = Append(trace, Ev("remove_leading_words", trace[1].skill,
                                 trace[1].arg, response'))
    /\ UNCHANGED <<skills, order, threshold, exit_loop, stack, turns, run,
                   learned,
                   modified_file>>

CallStartsWith ==
    /\ pc = "idle"
    /\ pc' = "returned"
    /\ response' = PyBool(starts_with(trace[1].arg, trace[1].skill))
    /\ trace' = Append(trace, Ev("starts_with", trace[1].skill, trace[1].arg,
                                 response'))
    /\ UNCHANGED <<skills, order, threshold, exit_loop, stack, turns, run,
                   learned,
                   modified_file>>

NextWords == CallRemoveLeadingWords \/ CallStartsWith

SpecWords == InitWords /\ [][NextWords]_vars

\* The whitespace-separated tokens of a phrase, in lower case; an absent
\* phrase has none.
Tokens(phrase) == IF phrase = None THEN <<>> ELSE Split(Lower(phrase))

\* The tokens of the leader are a case-insensitive prefix of the tokens of
\* the phrase.
TokenPrefix(phrase, leader) ==
    /\ Len(Tokens(leader)) <= Len(Tokens(phrase))
    /\ SubSeq(Tokens(phrase), 1, Len(Tokens(leader))) = Tokens(leader)

\* C16: when the tokens of the leader are a case-insensitive prefix of the
\* tokens of the phrase, remove_leading_words returns the remaining tokens
\* of the phrase joined by single spaces, the empty string when none
\* remains.
C16_LeaderStripped ==
    (/\ Len(trace) = 2
     /\ trace[2].ev = "remove_leading_words"
     /\ trace[2].arg # None
     /\ TokenPrefix(trace[2].arg, trace[2].skill)) =>
        response = Join(SubSeq(Split(trace[2].arg),
                               Len(Split(trace[2].skill)) + 1,
                               Len(Split(trace[2].arg))))

\* C17: when the tokens of the leader are not a case-insensitive prefix of
\* the tokens of the phrase (the phrase may be absent, the leader may have
\* more tokens than the phrase), remove_leading_words returns the phrase
\* itself and starts_with is false; and starts_with is true exactly when
\* remove_leading_words returns something else than the phrase.
C17_NoPrefixUnchanged ==
    Len(trace) = 2 =>
        /\ (trace[2].ev = "remove_leading_words"
            /\ ~TokenPrefix(trace[2].arg, trace[2].skill)) =>
               response = trace[2].arg
        /\ trace[2].ev = "starts_with" =>
               /\ ~TokenPrefix(trace[2].arg, trace[2].skill) =>
                     response = PyBool(FALSE)
               /\ (response = PyBool(TRUE)) <=>
                     (remove_leading_words(trace[2].arg, trace[2].skill)
                      # trace[2].arg)

\* C17 witness: remove_leading_words has returned a two-word phrase for a
\* leader of two words that shares only the first word with it.
C17_Witness ==
    /\ Len(trace) = 2
    /\ trace[2].ev = "remove_leading_words"
    /\ trace[2].arg = <<"p", " ", "p", "p">>
    /\ trace[2].skill = <<"P", " ", "p">>
    /\ response = trace[2].arg

(***************************************************************************)
(* main: an assistant is constructed, which loads the skills, and runs in  *)
(* continuous mode (listen_loop, then save_skills) or processes one        *)
(* phrase; then the process exits and the program is started again.        *)
(***************************************************************************)
DEFAULT_PHRASE == <<"h", "e", "l", "p", " ", "m", "e">>

\* json.dumps(skills, sort_keys=True)
json_dumps(sk) ==
    LET names == Sorted(DOMAIN sk)
    IN  [i \in 1..Len(names) |-> <<names[i], sk[names[i]]>>]

\* json.loads(text): the dictionary, whose iteration order is the order of
\* the text.
json_loads(text) ==
    [skills |-> [name \in {text[i][1] : i \in DOMAIN text} |->
                    text[CHOOSE i \in DOMAIN text : text[i][1] = name][2]],
     order |-> [i \in DOMAIN text |-> text[i][1]]]

\* The default skills file.
DefaultSkills ==
    [present |-> TRUE,
     text |-> <<<<T_Lights, HomeTable[T_Lights]>>,
                <<T_TurnOn, HomeTable[T_TurnOn]>>,
                <<T_Quit, HomeTable[T_Quit]>>>>]

\* load_skills: the first of the two files that is there and holds a
\* non-empty table, else what the default file holds.
load_skills(modified, default) ==
    IF modified.present /\ json_loads(modified.text).order # <<>>
    THEN json_loads(modified.text)
    ELSE json_loads(default.text)

save_skills(sk) == [present |-> TRUE, text |-> json_dumps(sk)]

InitMain ==
    /\ threshold = DEFAULT_SKILL_THRESHOLD
    /\ modified_file = NoFile
    /\ skills = load_skills(modified_file, DefaultSkills).skills
    /\ order = load_skills(modified_file, DefaultSkills).order
    /\ exit_loop = FALSE
    /\ pc = "idle"
    /\ stack = <<>>
    /\ response = None
    /\ trace = <<>>
    /\ turns = 0
    /\ run = NoRun
    /\ learned = {}

\* main, not in continuous mode: the phrase of the command line, else the
\* phrase heard, else the default phrase, is handed to process_phrase.
MainPhrase(arg, heard) ==
    IF Truthy(arg) THEN arg
    ELSE IF Truthy(heard) THEN heard
    ELSE DEFAULT_PHRASE

MainOnce(arg, heard, env) ==
    CallProcessPhrase(MainPhrase(arg, heard), FALSE, env)

\* main, in continuous mode: listen_loop has returned and the table is
\* saved; the process exits.
MainSave ==
    /\ pc = "done"
    /\ pc' = "exited"
    /\ modified_file' = save_skills(skills)
    /\ trace' = <<Ev("save_skills", None, None, None)>>
    /\ UNCHANGED <<skills, order, threshold, exit_loop, stack, response, turns,
                   run, learned>>

\* main, not in continuous mode: process_phrase has returned and the process
\* exits.
MainExit ==
    /\ pc = "returned"
    /\ pc' = "exited"
    /\ trace' = <<Ev("exit", None, None, None)>>
    /\ UNCHANGED <<skills, order, threshold, exit_loop, stack, response, turns,
                   run, learned, modified_file>>

\* The program is started again: a new assistant loads the skills.
MainAgain ==
    /\ pc = "exited"
    /\ pc' = "restarted"
    /\ skills' = load_skills(modified_file, DefaultSkills).skills
    /\ order' = load_skills(modified_file, DefaultSkills).order
    /\ exit_loop' = FALSE
    /\ stack' = <<>>
    /\ response' = None
    /\ trace' = <<Ev("load_skills", None, None, None)>>
    /\ UNCHANGED <<threshold, turns, run, learned, modified_file>>

NextMain ==
    \/ CallListenLoop
    \/ \E phrase \in WakeHeard : ListenWake(phrase)
    \/ \E phrase \in CommandHeard(skills), env \in Envs(skills) : ListenCommand(phrase, env)
    \/ \E phrase \in AnswerHeard, env \in Envs(skills) : ListenAnswer(phrase, env)
    \/ MainSave
    \/ \E arg \in {None, T_Please}, heard \in {None, T_Lights}, env \in Envs(skills) :
           MainOnce(arg, heard, env)
    \/ \E phrase \in AnswerHeard, env \in Envs(skills) : AnswerCall(phrase, env)
    \/ MainExit
    \/ MainAgain

SpecMain == InitMain /\ [][NextMain]_vars

\* C18: the table in memory when a session ends, with every change the
\* learning protocol has made to it, is the table the next start of the
\* assistant loads, and that start loads the modified skills file when the
\* file is there.
C18_ChangesPersist ==
    [][pc' = "restarted" =>
         /\ skills' = skills
         /\ modified_file.present =>
               skills' = json_loads(modified_file.text).skills
      ]_vars

\* A continuous session that has ended with quit has saved its table, and
\* the next start loads that table, its skills in sorted order.
SavedSessionReloads ==
    [][(pc' = "restarted" /\ trace[1].ev = "save_skills") =>
         /\ modified_file.present
         /\ skills' = skills
         /\ order' = Sorted(DOMAIN skills)
      ]_vars

(***************************************************************************)
(* Determinism of matching.                                                *)
(***************************************************************************)
NoSelection == [matched |-> FALSE, skill |-> None, operand |-> None]

\* The skill and operand a run of the loops of process_command ends with.
Selection(m) ==
    IF Truthy(m.response)
    THEN [matched |-> TRUE, skill |-> Last(m.events).skill,
          operand |-> Last(m.events).arg]
    ELSE NoSelection

\* The skill and operand the call of process_command just made ended with.
Selected ==
    LET dispatched == SelectSeq(trace', LAMBDA x : x.ev = "do_skill")
    IN  IF pc' = "returned" /\ Truthy(response')
        THEN [matched |-> TRUE, skill |-> Last(dispatched).skill,
              operand |-> Last(dispatched).arg]
        ELSE NoSelection

\* C19: a call of process_command selects the skill and the operand that
\* any other run on the same phrase and the same table selects, whatever
\* the random choices of the two runs.
C19_MatchingDeterministic ==
    [][(/\ pc = "idle"
        /\ trace'[1].ev = "process_command"
        /\ Truthy(trace'[1].arg)) =>
           \A env \in Envs(skills) :
               Selection(match_loop(skills, trace'[1].arg, 1, env)) = Selected
      ]_vars

(***************************************************************************)
(* The help skill.                                                         *)
(***************************************************************************)
\* The parts of a listing after its first line, each behind the separator.
RECURSIVE Listed(_)
Listed(parts) ==
    IF parts = <<>> THEN <<>>
    ELSE <<": ... ">> \o parts[1] \o Listed(Tail(parts))

HelpCalled ==
    /\ trace # <<>>
    /\ trace[1].ev = "do_skill"
    /\ trace[1].skill = T_Help

\* C20: help with a non-empty operand that is the name of a skill returns
\* the introduction for that skill followed by the commands of the skill in
\* their order, each behind the separator; with an empty operand, or one
\* that names no skill, it returns the usage line followed by the names of
\* all skills in sorted order; it does not raise.
C20_HelpListing ==
    HelpCalled =>
        /\ pc = "idle"
        /\ IF trace[1].arg # <<>> /\ trace[1].arg \in DOMAIN skills
           THEN response =
                    <<"These commands are available for the \"">> \o trace[1].arg
                    \o <<"\" skill">> \o Listed(skills[trace[1].arg].commands)
           ELSE /\ response = Usage \o Listed(Sorted(DOMAIN skills))
                /\ \A i, j \in DOMAIN Sorted(DOMAIN skills) :
                      i < j => StrLess(Sorted(DOMAIN skills)[i],
                                       Sorted(DOMAIN skills)[j])

\* C20 witness: help was dispatched for the skill lights, which has two
\* commands, and has listed them.
C20_Witness ==
    /\ HelpCalled
    /\ trace[1].arg = T_Lights
    /\ response = <<"These commands are available for the \"">> \o T_Lights
                  \o <<"\" skill", ": ... ">> \o T_Turn \o <<": ... ">> \o T_Please

(***************************************************************************)
(* The committed commands over a session of listen_loop.                   *)
(***************************************************************************)
IsPrefix(a, b) == Len(a) <= Len(b) /\ SubSeq(b, 1, Len(a)) = a

\* C25: in every step of a session the set of skill names stays the same
\* and every skill's commands keep their elements and their order, new ones
\* being added at the end only; a step that penalizes and does not
\* reinforce leaves every commands list as it is.
C25_CommandsAppendOnly ==
    [][/\ DOMAIN skills' = DOMAIN skills
       /\ \A skill \in DOMAIN skills :
             IsPrefix(skills[skill].commands, skills'[skill].commands)
       /\ (CallEvents("dec") # {} /\ CallEvents("inc") = {}) =>
             \A skill \in DOMAIN skills :
                 skills'[skill].commands = skills[skill].commands
      ]_vars

\* C25 witness: a skill that has learned two commands in the session, one
\* after the other, and a last step that has penalized a phrase.
C25_Witness ==
    /\ \E skill \in DOMAIN skills :
          /\ Len(skills[skill].commands) = 2
          /\ \A i \in 1..2 : <<skill, skills[skill].commands[i]>> \in learned
    /\ EventsOf("dec") # {}

====
